---- MODULE Spec2Model ----
(***************************************************************************)
(* Core Content Hub API (src/main.py, src/schemas.py): the admin CRUD      *)
(* handlers and the public read surface over the "post" and "category"     *)
(* collections of a document store.                                        *)
(*                                                                         *)
(* A stored document is a record of its fields.  None is "None" for text   *)
(* fields, NoTime for datetime fields and NoTags for the tag list.  The    *)
(* payload of a PATCH is a function whose DOMAIN is the set of fields the  *)
(* request set (model_dump(exclude_unset=True)).                           *)
(*                                                                         *)
(* The store handle db is taken to be connected (the handlers' "if db"     *)
(* holds).  datetime.now(timezone.utc) is a clock that does not run        *)
(* backwards and need not advance between two readings; the readings one   *)
(* handler takes are modelled as one.  The text fields of a post that no   *)
(* handler treats specially (title, excerpt, content, image_url, author)   *)
(* keep the value they are created with.                                   *)
(***************************************************************************)
EXTENDS Integers, Sequences, FiniteSets, TLC

\* ------------------------------------------------------------------ bounds
MaxTime == 2
MaxPage == 2

\* ------------------------------------------------------------ value domains
None == "None"
NoTime == 0
NoTags == <<>>
Times == 1..MaxTime

\* Identifier strings: two well-formed ObjectId strings and a malformed one.
ObjectIds == {"id1", "id2"}
IdStrings == ObjectIds \cup {"bad"}
IsValid(id) == id \in ObjectIds

Slugs == {"a", "b"}
Colls == {"post", "category"}

VARIABLES
    db,        \* db[c]: the collection c, a function from _id to document
    unused,    \* identifiers the store has not assigned yet
    now,       \* the latest reading of the UTC clock
    result,    \* the outcome of the latest request
    inflight   \* requests between two of their store operations

vars == <<db, unused, now, result, inflight>>

NoDocs == [i \in {} |-> None]

\* dict update / $set: the fields of u laid over those of d.
SetFields(d, u) == u @@ d

\* Python truthiness of an optional datetime: None is falsy.
Truthy(t) == t # NoTime

\* find_one({"slug": slug})
FindBySlug(coll, slug) == {i \in DOMAIN coll : coll[i].slug = slug}

\* ---------------------------------------------------------------- inputs
\* Bodies of POST /api/admin/posts: a Post (src/schemas.py) with its defaults.
PostPayloads ==
    [title : {"A"}, slug : Slugs, excerpt : {None}, content : {"x"},
     image_url : {None}, category_slug : {"tech"}, tags : {<<"x">>},
     status : {"draft", "published"}, author : {None}, published_at : {NoTime, 1}]

\* Bodies of PATCH /api/admin/posts/{id}: the fields the request set.
EmptyPartial == [f \in {} |-> None]

PostPartials ==
    {EmptyPartial,
     [status |-> "published", published_at |-> 1],
     [status |-> "published", published_at |-> NoTime]}
    \cup {[slug |-> s] : s \in Slugs}
    \cup {[status |-> st] : st \in {"draft", "published"}}
    \cup {[published_at |-> t] : t \in {NoTime, 1}}

\* Bodies of POST /api/admin/categories: a Category (src/schemas.py).
CategoryPayloads == [name : {"N"}, slug : Slugs, description : {None}]

\* Bodies of PATCH /api/admin/categories/{id}.
CategoryPartials == {EmptyPartial, [name |-> "M"]} \cup {[slug |-> s] : s \in Slugs}

\* The clock readings a handler can take after the reading t.  A handler that
\* returns before it reads the clock is given t = now.
Readings(t) == t..MaxTime

\* ----------------------------------------------------------------- store
\* database.create_document: the data plus the two system timestamps, inserted
\* under an identifier the store has not assigned before.
NewId == CHOOSE i \in unused : TRUE

CreateDocument(c, data, t) ==
    /\ unused # {}
    /\ db' = [db EXCEPT ![c] =
                [i \in (DOMAIN db[c]) \cup {NewId} |->
                    IF i = NewId
                    THEN SetFields(data, [created_at |-> t, updated_at |-> t])
                    ELSE db[c][i]]]
    /\ unused' = unused \ {NewId}

\* Variant: the $set applied without the _id filter.
UpdateOne_All(c, id, update) ==
    db' = [db EXCEPT ![c] = [i \in DOMAIN db[c] |-> SetFields(db[c][i], update)]]

\* update_one({"_id": id}, {"$set": update})
UpdateOne(c, id, update) ==
    db' = IF id \in DOMAIN db[c]
          THEN [db EXCEPT ![c][id] = SetFields(@, update)]
          ELSE db

\* Variant: a delete of a stored document that empties the collection.
DeleteOne_All(c, id) ==
    db' = [db EXCEPT ![c] = IF id \in DOMAIN db[c] THEN NoDocs ELSE db[c]]

\* delete_one({"_id": id})
DeleteOne(c, id) ==
    db' = [db EXCEPT ![c] = [i \in (DOMAIN db[c]) \ {id} |-> db[c][i]]]

\* --------------------------------------------------------- admin handlers
\* create_post: the data inserted once the slug lookup found nothing.
PostData(payload, t) ==
    IF payload.status = "published" /\ ~Truthy(payload.published_at)
    THEN [payload EXCEPT !.published_at = t]
    ELSE payload

CreateCategory(payload, t) ==
    /\ IF FindBySlug(db["category"], payload.slug) # {}
       THEN /\ result' = "SlugConflict"
            /\ t = now
            /\ UNCHANGED <<db, unused, now>>
       ELSE /\ result' = "created"
            /\ now' = t
            /\ CreateDocument("category", payload, t)
    /\ UNCHANGED inflight

\* Variant: create_post without the slug lookup.
CreatePost_NoLookup(payload, t) ==
    /\ result' = "created"
    /\ now' = t
    /\ CreateDocument("post", PostData(payload, t), t)
    /\ UNCHANGED inflight

CreatePost(payload, t) ==
    /\ IF FindBySlug(db["post"], payload.slug) # {}
       THEN /\ result' = "SlugConflict"
            /\ t = now
            /\ UNCHANGED <<db, unused, now>>
       ELSE /\ result' = "created"
            /\ now' = t
            /\ CreateDocument("post", PostData(payload, t), t)
    /\ UNCHANGED inflight

\* Variant: update_post without the updated_at stamp.
PostUpdateSet_NoStamp(partial, t) ==
    IF /\ "status" \in DOMAIN partial
       /\ partial["status"] = "published"
       /\ ~("published_at" \in DOMAIN partial /\ Truthy(partial["published_at"]))
    THEN SetFields(partial, [published_at |-> t])
    ELSE partial

\* update_post: the $set document of a non-empty partial.
PostUpdateSet(partial, t) ==
    LET stamped ==
            IF /\ "status" \in DOMAIN partial
               /\ partial["status"] = "published"
               /\ ~("published_at" \in DOMAIN partial /\ Truthy(partial["published_at"]))
            THEN SetFields(partial, [published_at |-> t])
            ELSE partial
    IN SetFields(stamped, [updated_at |-> t])

CategoryUpdateSet(partial, t) == SetFields(partial, [updated_at |-> t])

UpdateCategory(id, partial, t) ==
    /\ IF ~IsValid(id)
       THEN /\ result' = "InvalidIdentifier"
            /\ t = now
            /\ UNCHANGED <<db, now>>
       ELSE IF DOMAIN partial = {}
       THEN /\ result' = "no_update"
            /\ t = now
            /\ UNCHANGED <<db, now>>
       ELSE /\ result' = IF id \in DOMAIN db["category"] THEN "updated" ELSE "NotFound"
            /\ now' = t
            /\ UpdateOne("category", id, CategoryUpdateSet(partial, t))
    /\ UNCHANGED <<unused, inflight>>

\* Variant: update_post without the early return on an empty partial.
UpdatePost_NoEmptyCheck(id, partial, t) ==
    /\ IF ~IsValid(id)
       THEN /\ result' = "InvalidIdentifier"
            /\ t = now
            /\ UNCHANGED <<db, now>>
       ELSE /\ result' = IF id \in DOMAIN db["post"] THEN "updated" ELSE "NotFound"
            /\ now' = t
            /\ UpdateOne("post", id, PostUpdateSet(partial, t))
    /\ UNCHANGED <<unused, inflight>>

UpdatePost(id, partial, t) ==
    /\ IF ~IsValid(id)
       THEN /\ result' = "InvalidIdentifier"
            /\ t = now
            /\ UNCHANGED <<db, now>>
       ELSE IF DOMAIN partial = {}
       THEN /\ result' = "no_update"
            /\ t = now
            /\ UNCHANGED <<db, now>>
       ELSE /\ result' = IF id \in DOMAIN db["post"] THEN "updated" ELSE "NotFound"
            /\ now' = t
            /\ UpdateOne("post", id, PostUpdateSet(partial, t))
    /\ UNCHANGED <<unused, inflight>>

\* {"deleted": res.deleted_count == 1}
DeletedFlag(coll, id) == IF id \in DOMAIN coll THEN "deleted" ELSE "not_deleted"

\* delete_category and delete_post are the same code on their collections.
Delete(c, id) ==
    /\ IF ~IsValid(id)
       THEN /\ result' = "InvalidIdentifier"
            /\ UNCHANGED db
       ELSE /\ result' = DeletedFlag(db[c], id)
            /\ DeleteOne(c, id)
    /\ UNCHANGED <<unused, now, inflight>>

DeleteCategory(id) == Delete("category", id)

DeletePost(id) == Delete("post", id)

\* ------------------------------------------------------- read handlers
TimeFields == {"published_at", "created_at", "updated_at"}

\* datetime.astimezone(timezone.utc).isoformat()
IsoFormat(t) == <<"iso", t>>

\* serialize_doc: _id becomes id, datetime values become ISO-8601 text.
SerializeDoc(id, d) ==
    [f \in (DOMAIN d) \cup {"id"} |->
        IF f = "id" THEN id
        ELSE IF f \in TimeFields /\ d[f] # NoTime THEN IsoFormat(d[f])
        ELSE d[f]]

\* HTTPException(status_code=..., detail=...)
InvalidId == [status_code |-> "400", detail |-> "Invalid id"]
NotFound == [status_code |-> "404", detail |-> "Not found"]

\* get_post_admin
GetPostAdmin(posts, id) ==
    IF ~IsValid(id) THEN InvalidId
    ELSE IF id \notin DOMAIN posts THEN NotFound
    ELSE SerializeDoc(id, posts[id])

\* The filter of list_posts_public (category, tag: None when not given) and of
\* wp_feed (neither given): the identifiers of the posts it matches.
InTags(tag, tags) == \E k \in DOMAIN tags : tags[k] = tag

\* Variant: the public filter without its status term.
PublicFilter_NoStatus(posts, category, tag) ==
    {i \in DOMAIN posts :
        /\ category # None => posts[i].category_slug = category
        /\ tag # None => InTags(tag, posts[i].tags)}

PublicFilter(posts, category, tag) ==
    {i \in DOMAIN posts :
        /\ posts[i].status = "published"
        /\ category # None => posts[i].category_slug = category
        /\ tag # None => InTags(tag, posts[i].tags)}

\* find(filt).sort("published_at", -1): every order the store can return,
\* documents of equal published_at in either order.
SortedDesc(posts, ids) ==
    {s \in [1..Cardinality(ids) -> ids] :
        /\ \A k, l \in DOMAIN s : k # l => s[k] # s[l]
        /\ \A k, l \in DOMAIN s :
              k < l => posts[s[k]].published_at >= posts[s[l]].published_at}

Window(s, skip, limit) ==
    [k \in 1..(IF Len(s) - skip < limit
               THEN (IF Len(s) - skip < 0 THEN 0 ELSE Len(s) - skip)
               ELSE limit) |-> s[k + skip]]

\* list_posts_public: the responses it can give.
ListPostsPublic(posts, page, page_size, category, tag) ==
    LET filt == PublicFilter(posts, category, tag)
    IN {[items |-> [k \in DOMAIN w |-> SerializeDoc(w[k], posts[w[k]])],
         page |-> page, page_size |-> page_size, total |-> Cardinality(filt)] :
            w \in {Window(s, (page - 1) * page_size, page_size) :
                      s \in SortedDesc(posts, filt)}}

\* get_post_by_slug: the responses it can give.
GetPostBySlug(posts, slug) ==
    LET found == {i \in DOMAIN posts :
                     posts[i].slug = slug /\ posts[i].status = "published"}
    IN IF found = {} THEN {NotFound}
       ELSE {SerializeDoc(i, posts[i]) : i \in found}

\* The fields of a WPFeedItem.
FeedFields ==
    {"id", "title", "slug", "excerpt", "content", "image_url", "category_slug",
     "tags", "author", "published_at"}

\* wp_feed: the responses it can give.
WpFeed(posts, limit) ==
    {[k \in DOMAIN w |-> [f \in FeedFields |-> SerializeDoc(w[k], posts[w[k]])[f]]] :
        w \in {Window(s, 0, limit) : s \in SortedDesc(posts, PublicFilter(posts, None, None))}}

\* ------------------------------------------------- overlapping requests
\* Two create requests in flight: each runs its slug lookup and its insert as
\* separate store operations.  A request that has returned keeps its outcome
\* only.
Procs == {"p1", "p2"}
Idle == [pc |-> "idle", coll |-> "post", payload |-> EmptyPartial, outcome |-> "none"]

\* create_category / create_post up to the slug lookup.
CreateLookup(p, c, payload) ==
    /\ inflight[p].pc \in {"idle", "done"}
    /\ inflight' = [inflight EXCEPT ![p] =
          IF FindBySlug(db[c], payload.slug) # {}
          THEN [pc |-> "done", coll |-> c, payload |-> EmptyPartial, outcome |-> "SlugConflict"]
          ELSE [pc |-> "insert", coll |-> c, payload |-> payload, outcome |-> "none"]]
    /\ UNCHANGED <<db, unused, now, result>>

\* Variant: an insert that looks the slug up again and refuses a stored one.
CreateInsert_Recheck(p, t) ==
    /\ inflight[p].pc = "insert"
    /\ IF FindBySlug(db[inflight[p].coll], inflight[p].payload.slug) # {}
       THEN /\ inflight' = [inflight EXCEPT ![p] =
                  [pc |-> "done", coll |-> inflight[p].coll, payload |-> EmptyPartial,
                   outcome |-> "SlugConflict"]]
            /\ t = now
            /\ UNCHANGED <<db, unused, now>>
       ELSE /\ CreateDocument(inflight[p].coll,
                              IF inflight[p].coll = "post"
                              THEN PostData(inflight[p].payload, t)
                              ELSE inflight[p].payload,
                              t)
            /\ now' = t
            /\ inflight' = [inflight EXCEPT ![p] =
                  [pc |-> "done", coll |-> inflight[p].coll, payload |-> EmptyPartial,
                   outcome |-> "created"]]
    /\ UNCHANGED result

\* create_category / create_post from the insert on.
CreateInsert(p, t) ==
    /\ inflight[p].pc = "insert"
    /\ CreateDocument(inflight[p].coll,
                      IF inflight[p].coll = "post"
                      THEN PostData(inflight[p].payload, t)
                      ELSE inflight[p].payload,
                      t)
    /\ now' = t
    /\ inflight' = [inflight EXCEPT ![p] =
          [pc |-> "done", coll |-> inflight[p].coll, payload |-> EmptyPartial,
           outcome |-> "created"]]
    /\ UNCHANGED result

\* ------------------------------------------------------------------ specs
Init ==
    /\ db = [c \in Colls |-> NoDocs]
    /\ unused = ObjectIds
    /\ now = 1
    /\ result = "none"
    /\ inflight = [p \in Procs |-> Idle]

\* One request at a time: every handler runs to completion.
Next ==
    \/ \E payload \in CategoryPayloads, t \in Readings(now) : CreateCategory(payload, t)
    \/ \E id \in IdStrings, partial \in CategoryPartials, t \in Readings(now) :
          UpdateCategory(id, partial, t)
    \/ \E id \in IdStrings : DeleteCategory(id)
    \/ \E payload \in PostPayloads, t \in Readings(now) : CreatePost(payload, t)
    \/ \E id \in IdStrings, partial \in PostPartials, t \in Readings(now) :
          UpdatePost(id, partial, t)
    \/ \E id \in IdStrings : DeletePost(id)

Spec == Init /\ [][Next]_vars

\* Create requests that overlap.
NextConc ==
    \/ \E p \in Procs, payload \in PostPayloads : CreateLookup(p, "post", payload)
    \/ \E p \in Procs, payload \in CategoryPayloads : CreateLookup(p, "category", payload)
    \/ \E p \in Procs, t \in Readings(now) : CreateInsert(p, t)

SpecConc == Init /\ [][NextConc]_vars

\* ================================================================ claims
\* A handler's clock reading t is the clock's value after its step (now' = t
\* when it reads the clock, t = now = now' when it does not), so the steps of
\* a handler H(x, t) are the steps H(x, now').
Posts == db["post"]
Categories == db["category"]
NonEmpty(partials) == {u \in partials : DOMAIN u # {}}

\* C1: in every reachable state no two stored documents of one collection
\* have the same slug.
C1_SlugUnique ==
    \A c \in Colls : \A i, j \in DOMAIN db[c] :
        i # j => db[c][i].slug # db[c][j].slug

\* C2: a create whose slug is the slug of a stored document of the collection
\* reports SlugConflict and leaves the collection as it was.
C2_CreateConflict ==
    [][/\ \A payload \in PostPayloads :
            (/\ CreatePost(payload, now')
             /\ \E i \in DOMAIN Posts : Posts[i].slug = payload.slug)
            => (result' = "SlugConflict" /\ db' = db)
       /\ \A payload \in CategoryPayloads :
            (/\ CreateCategory(payload, now')
             /\ \E i \in DOMAIN Categories : Categories[i].slug = payload.slug)
            => (result' = "SlugConflict" /\ db' = db)]_vars

C2_Witness ==
    /\ result = "SlugConflict"
    /\ \E c \in Colls : DOMAIN db[c] # {}

\* C3: a stored post whose status is published has a non-null published_at.
C3_PublishedHasTime ==
    \A i \in DOMAIN Posts :
        Posts[i].status = "published" => Posts[i].published_at # NoTime

\* C4: an update that does not supply published_at leaves a non-null stored
\* published_at unchanged.
C4_PublishedAtKept ==
    [][\A id \in ObjectIds :
          \A partial \in {u \in NonEmpty(PostPartials) : "published_at" \notin DOMAIN u} :
            (/\ UpdatePost(id, partial, now')
             /\ id \in DOMAIN Posts
             /\ Posts[id].published_at # NoTime)
            => db'["post"][id].published_at = Posts[id].published_at]_vars

\* C5 as stated: a matching non-empty update sets updated_at to a value
\* strictly greater than the one it had.
C5_StrictlyGreater ==
    [][/\ \A id \in ObjectIds : \A partial \in NonEmpty(PostPartials) :
            (UpdatePost(id, partial, now') /\ id \in DOMAIN Posts)
            => db'["post"][id].updated_at > Posts[id].updated_at
       /\ \A id \in ObjectIds : \A partial \in NonEmpty(CategoryPartials) :
            (UpdateCategory(id, partial, now') /\ id \in DOMAIN Categories)
            => db'["category"][id].updated_at > Categories[id].updated_at]_vars

\* C5 amended: a matching non-empty update sets updated_at to the clock
\* reading the update took, which is not earlier than the value it had.
C5_SetToReading ==
    [][/\ \A id \in ObjectIds : \A partial \in NonEmpty(PostPartials) :
            (UpdatePost(id, partial, now') /\ id \in DOMAIN Posts)
            => /\ result' = "updated"
               /\ db'["post"][id].updated_at = now'
               /\ db'["post"][id].updated_at >= Posts[id].updated_at
       /\ \A id \in ObjectIds : \A partial \in NonEmpty(CategoryPartials) :
            (UpdateCategory(id, partial, now') /\ id \in DOMAIN Categories)
            => /\ result' = "updated"
               /\ db'["category"][id].updated_at = now'
               /\ db'["category"][id].updated_at >= Categories[id].updated_at]_vars

C5_Witness ==
    /\ result = "updated"
    /\ \E i \in DOMAIN Posts : Posts[i].updated_at > Posts[i].created_at
    /\ \E i \in DOMAIN Categories : Categories[i].updated_at = Categories[i].created_at

\* The step changes, in collection c, at most the fields `changed` of the
\* document id, and nothing in the other collection.
OnlyChanges(c, id, changed) ==
    /\ DOMAIN db'[c] = DOMAIN db[c]
    /\ \A j \in DOMAIN db[c] : j # id => db'[c][j] = db[c][j]
    /\ \A c2 \in Colls \ {c} : db'[c2] = db[c2]
    /\ id \in DOMAIN db[c] =>
          /\ DOMAIN db'[c][id] = DOMAIN db[c][id]
          /\ \A f \in (DOMAIN db[c][id]) \ changed : db'[c][id][f] = db[c][id][f]

Publishing(partial) ==
    IF "status" \in DOMAIN partial /\ partial["status"] = "published"
    THEN {"published_at"} ELSE {}

\* C6: a partial update changes only the fields of the partial, updated_at and
\* (when it publishes) published_at of its document; the document's other
\* fields, its identifier, created_at and every other document are unchanged.
C6_PartialUpdateFrame ==
    [][/\ \A id \in ObjectIds : \A partial \in NonEmpty(PostPartials) :
            UpdatePost(id, partial, now')
            => OnlyChanges("post", id,
                           (DOMAIN partial) \cup {"updated_at"} \cup Publishing(partial))
       /\ \A id \in ObjectIds : \A partial \in NonEmpty(CategoryPartials) :
            UpdateCategory(id, partial, now')
            => OnlyChanges("category", id, (DOMAIN partial) \cup {"updated_at"})]_vars

C6_Witness ==
    /\ result = "updated"
    /\ \E i, j \in DOMAIN Posts :
          /\ i # j
          /\ Posts[i].updated_at > Posts[i].created_at
          /\ Posts[j].updated_at = Posts[j].created_at

\* C7: an update with a well-formed identifier and an empty partial writes
\* nothing and reports the no-update outcome.
C7_EmptyUpdateNoWrite ==
    [][\A id \in ObjectIds :
          /\ UpdatePost(id, EmptyPartial, now')
                => (db' = db /\ now' = now /\ result' = "no_update")
          /\ UpdateCategory(id, EmptyPartial, now')
                => (db' = db /\ now' = now /\ result' = "no_update")]_vars

C7_Witness ==
    /\ result = "no_update"
    /\ \E c \in Colls : DOMAIN db[c] # {}

\* C8: delete with a well-formed identifier reports not-deleted and changes
\* nothing when no document has the identifier; otherwise it reports deleted,
\* removes exactly that document, the document is then NotFound by identifier,
\* and a further delete of it reports not-deleted.
C8_Delete ==
    [][\A c \in Colls, id \in ObjectIds :
          Delete(c, id) =>
            IF id \in DOMAIN db[c]
            THEN /\ result' = "deleted"
                 /\ DOMAIN db'[c] = (DOMAIN db[c]) \ {id}
                 /\ \A j \in DOMAIN db'[c] : db'[c][j] = db[c][j]
                 /\ \A c2 \in Colls \ {c} : db'[c2] = db[c2]
                 /\ c = "post" => GetPostAdmin(db'[c], id) = NotFound
                 /\ DeletedFlag(db'[c], id) = "not_deleted"
            ELSE /\ result' = "not_deleted"
                 /\ db' = db]_vars

C8_Witness ==
    /\ result = "deleted"
    /\ unused = {}
    /\ \E c \in Colls : Cardinality(DOMAIN db[c]) = 1

\* C9: the public listing, the feed and get-by-slug return only posts whose
\* stored status is published, whatever the arguments; a slug held only by
\* unpublished posts gives NotFound, as a slug held by no post does.
CategoryArgs == {None, "tech", "other"}
TagArgs == {None, "x", "y"}
SlugArgs == Slugs \cup {"zz"}

C9_PublicOnlyPublished ==
    /\ \A category \in CategoryArgs, tag \in TagArgs, page, page_size \in 1..MaxPage :
          \A r \in ListPostsPublic(Posts, page, page_size, category, tag) :
              \A k \in DOMAIN r.items :
                  /\ r.items[k].id \in DOMAIN Posts
                  /\ Posts[r.items[k].id].status = "published"
    /\ \A limit \in 1..MaxPage : \A r \in WpFeed(Posts, limit) :
          \A k \in DOMAIN r :
              /\ r[k].id \in DOMAIN Posts
              /\ Posts[r[k].id].status = "published"
    /\ \A slug \in SlugArgs :
          /\ \A r \in GetPostBySlug(Posts, slug) :
                r # NotFound => Posts[r.id].status = "published"
          /\ (\A i \in DOMAIN Posts : Posts[i].slug = slug => Posts[i].status # "published")
                => GetPostBySlug(Posts, slug) = {NotFound}

C9_Witness ==
    \E i, j \in DOMAIN Posts :
        /\ Posts[i].status = "draft"
        /\ Posts[j].status = "published"
        /\ Posts[i].slug # Posts[j].slug
        /\ GetPostBySlug(Posts, Posts[i].slug) = {NotFound}
        /\ \E r \in ListPostsPublic(Posts, 1, 2, None, None) : Len(r.items) = 1

\* C10: the insert of a create does not look the slug up again; a create that
\* passed its lookup inserts and reports created even when another create
\* stored the same slug in between, so two documents then share the slug.
C10_InsertAfterLookup ==
    [][\A p \in Procs :
          CreateInsert(p, now') =>
            /\ inflight'[p].outcome = "created"
            /\ Cardinality(FindBySlug(db'[inflight[p].coll], inflight[p].payload.slug))
                 = Cardinality(FindBySlug(db[inflight[p].coll], inflight[p].payload.slug)) + 1]_vars

C10_Witness ==
    /\ \A p \in Procs : inflight[p].pc = "done" /\ inflight[p].outcome = "created"
    /\ \E c \in Colls : \E i, j \in DOMAIN db[c] : i # j /\ db[c][i].slug = db[c][j].slug

====
